---- MODULE Spec2Model ----
(***************************************************************************)
(* Model of the resilient request layer of github-pr-reviewer:             *)
(*   GitHubClient._handle_rate_limit / _make_request (github_client.py)    *)
(*   LLMReviewer._call_huggingface_api / generate_review_with_fallback     *)
(*   (llm_reviewer.py)                                                     *)
(*                                                                         *)
(* Time is counted in ticks, TicksPerSec ticks to the second.  The two     *)
(* clock readings the client compares (time since last_request_time, time  *)
(* since the previous GET) saturate at one second, which is the only       *)
(* threshold the code tests them against.  Text (header values, generated  *)
(* text) is a sequence of one-character strings.                           *)
(***************************************************************************)
EXTENDS Integers, Sequences, FiniteSets, TLC

\* ---------------------------------------------------------------- bounds
\* config.max_retries ranges over 0..MaxRetries
MaxRetries == 7
\* clock resolution: ticks per second
TicksPerSec == 2

\* ------------------------------------------------------ program constants
\* min(60, ...) in the exponential backoff
BackoffCap == 60
\* self.rate_limit_remaining = 10
InitRemaining == 10
\* base of the exponential backoff, 2 ** attempt
BackoffBase == 2

Min(a, b) == IF a < b THEN a ELSE b
Max(a, b) == IF a > b THEN a ELSE b

\* ------------------------------------------------------------------ text
Digits == {"0", "1", "2", "3", "4", "5", "6", "7", "8", "9"}

DigitVal(c) ==
  CASE c = "0" -> 0 [] c = "1" -> 1 [] c = "2" -> 2 [] c = "3" -> 3
    [] c = "4" -> 4 [] c = "5" -> 5 [] c = "6" -> 6 [] c = "7" -> 7
    [] c = "8" -> 8 [] c = "9" -> 9

RECURSIVE DigitsVal(_)
DigitsVal(s) ==
  IF s = <<>> THEN 0
  ELSE 10 * DigitsVal(SubSeq(s, 1, Len(s) - 1)) + DigitVal(s[Len(s)])

AllDigits(s) == Len(s) > 0 /\ \A i \in 1..Len(s) : s[i] \in Digits

\* int(text) succeeds: an optional sign followed by at least one digit
\* (otherwise int() raises ValueError)
IsIntText(s) ==
  /\ Len(s) > 0
  /\ IF s[1] \in {"-", "+"} THEN AllDigits(Tail(s)) ELSE AllDigits(s)

\* int(text) for a text on which it succeeds
IntOf(s) ==
  IF s[1] = "-" THEN 0 - DigitsVal(Tail(s))
  ELSE IF s[1] = "+" THEN DigitsVal(Tail(s))
  ELSE DigitsVal(s)

\* --------------------------------------------------------- HTTP responses
\* a header of a response: present with a text value, or absent
Header(s) == [has |-> TRUE, val |-> s]
NoHeader == [has |-> FALSE, val |-> <<>>]

\* response.headers.get(name, default)
HeaderGet(h, default) == IF h.has THEN h.val ELSE default

\* X-RateLimit-Remaining header values the API may send
RemainingHeaders ==
  {NoHeader, Header(<<"0">>), Header(<<"5">>), Header(<<"-", "1">>),
   Header(<<"x">>)}

\* X-RateLimit-Reset header values.  The timestamp is written relative to
\* the whole second in which the client reads time.time(); only the
\* difference reset_time - current_time enters the code.
ResetHeaders ==
  {NoHeader, Header(<<>>), Header(<<"x">>), Header(<<"-", "5">>),
   Header(<<"1">>), Header(<<"6", "2">>)}

Statuses == {200, 403, 404, 429, 500}

\* frac: the part of time.time() beyond the whole second, in ticks
AllResponses ==
  [kind : {"response"}, status : Statuses, remaining : RemainingHeaders,
   reset : ResetHeaders, frac : 0..(TicksPerSec - 1)]

\* The responses _make_request is run against.  The reset header is read
\* for 403 and 429 only, and only after the remaining-quota header was
\* parsed; the clock is read only when the reset header is an integer, and
\* for a timestamp in the past max(reset_time - current_time, 0) is 0
\* whatever the fraction of the second.  The other responses are taken
\* without reset header and with frac 0.
Responses ==
  {r \in AllResponses :
     /\ (r.status \notin {403, 429} => r.reset = NoHeader)
     /\ (r.remaining = Header(<<"x">>) => r.reset = NoHeader)
     /\ (r.reset \in {NoHeader, Header(<<>>), Header(<<"x">>),
                      Header(<<"-", "5">>)}
           => r.frac = 0)
     /\ r.reset # Header(<<>>)}

\* an attempt that ended in an exception of requests instead of a response
Exc(kind) ==
  [kind |-> kind, status |-> 0, remaining |-> NoHeader, reset |-> NoHeader,
   frac |-> 0]

NoOutcome == Exc("none")

\* ------------------------------------------------------ _handle_rate_limit
Wait(secs) == [tag |-> "wait", secs |-> secs]
NoWait == [tag |-> "none", secs |-> 0]
Raises == [tag |-> "raise", secs |-> 0]

\* the test that decides whether a 403 is a real rate limit
NotRateLimited(remaining, status) == remaining > 0 /\ status # 429

\* int(sleep_time): whole seconds of a non-negative duration in ticks
\* variant: the wait from the reset header capped like the backoff
WholeSecondsCapped(ticks) == Min(BackoffCap, ticks \div TicksPerSec)

WholeSeconds(ticks) == ticks \div TicksPerSec

HandleRateLimit(resp) ==
  IF resp.status \notin {403, 429} THEN NoWait
  ELSE
    LET remText == HeaderGet(resp.remaining, <<"0">>) IN
    IF ~IsIntText(remText) THEN Raises
    ELSE IF NotRateLimited(IntOf(remText), resp.status) THEN NoWait
    ELSE IF ~resp.reset.has \/ resp.reset.val = <<>> THEN NoWait
    ELSE IF ~IsIntText(resp.reset.val) THEN NoWait
    ELSE
      LET sleep_time ==
            Max(IntOf(resp.reset.val) * TicksPerSec - resp.frac, 0)
      IN  IF sleep_time < 1 * TicksPerSec THEN NoWait
          ELSE Wait(WholeSeconds(sleep_time))

\* ------------------------------------------------------------ _make_request
RECURSIVE Pow(_, _)
Pow(b, n) == IF n = 0 THEN 1 ELSE b * Pow(b, n - 1)

\* random.uniform(0, 1), in ticks
Jitters == 0..(TicksPerSec - 1)

\* min(60, (2 ** attempt) + random.uniform(0, 1)), in ticks
BackoffUncapped(attempt, jitter) ==
  Pow(BackoffBase, attempt) * TicksPerSec + jitter
Backoff(attempt, jitter) ==
  Min(BackoffCap * TicksPerSec,
      Pow(BackoffBase, attempt) * TicksPerSec + jitter)

\* range(max_retries + 1): the number of iterations of the retry loop
AttemptLimitOneMore(mr) == mr + 2
AttemptLimit(mr) == mr + 1

\* the for loop's step to the next attempt
NextAttemptStuck(a) == a
NextAttempt(a) == a + 1

\* `if attempt < max_retries` guarding the backoff sleep and the retry
CanRetryAlways(a, mr) == TRUE
CanRetry(a, mr) == a < mr

\* response.raise_for_status() raises HTTPError
IsHttpError(status) == 400 <= status /\ status < 600

\* int(response.headers.get('X-RateLimit-Remaining', '10'))
ParsedRemaining(remText) == IntOf(remText)

\* a duration added to a saturating clock reading
Sat(t) == Min(t, TicksPerSec)

\* how long one GET takes before it yields its outcome, in ticks: at once,
\* or a second and more
Durations == {0, TicksPerSec}

NoSleep == [kind |-> "none", attempt |-> 0, ticks |-> 0]
Slept(kind, a, ticks) == [kind |-> kind, attempt |-> a, ticks |-> ticks]

Pending == [tag |-> "pending", resp |-> NoOutcome]
ReturnNone == [tag |-> "none", resp |-> NoOutcome]
Raised == [tag |-> "raised", resp |-> NoOutcome]
ReturnResponse(r) == [tag |-> "response", resp |-> r]

\* --------------------------------------------------- the review generator
Whitespace == {" ", "\n", "\t"}
Punctuation == {".", "!", "?"}

RECURSIVE LStrip(_)
LStrip(s) ==
  IF s # <<>> /\ s[1] \in Whitespace THEN LStrip(Tail(s)) ELSE s

RECURSIVE RStrip(_)
RStrip(s) ==
  IF s # <<>> /\ s[Len(s)] \in Whitespace
  THEN RStrip(SubSeq(s, 1, Len(s) - 1))
  ELSE s

\* str.strip()
Strip(s) == RStrip(LStrip(s))

\* str.startswith(prefix)
StartsWith(s, prefix) ==
  Len(s) >= Len(prefix) /\ SubSeq(s, 1, Len(prefix)) = prefix

\* str.split('\n'): the lines before and after a newline, split at the
\* middle newline so that the recursion stays shallow on long texts
RECURSIVE SplitLines(_)
SplitLines(s) ==
  LET at == {i \in 1..Len(s) : s[i] = "\n"} IN
  IF at = {} THEN <<s>>
  ELSE LET mid == CHOOSE k \in at :
                    Cardinality({j \in at : j < k}) = Cardinality(at) \div 2
       IN  SplitLines(SubSeq(s, 1, mid - 1))
             \o SplitLines(SubSeq(s, mid + 1, Len(s)))

\* JSON values of an inference response
JStr(s) == [t |-> "str", s |-> s]
JNum(n) == [t |-> "num", n |-> n]
JNull == [t |-> "null"]
JList(items) == [t |-> "list", items |-> items]
\* an object with a generated_text member
JObject(gt) == [t |-> "dict", has |-> TRUE, gt |-> gt]
\* an object without one
JEmptyObject == [t |-> "dict", has |-> FALSE, gt |-> JNull]
\* a body on which response.json() raises
BadJson == [t |-> "badjson"]

GenTexts ==
  {<<>>, <<" ">>, <<"a">>, <<"a", ".">>, <<"a", ".", "b">>,
   <<" ", "a", "!", "\n">>}

GenValues == {JStr(s) : s \in GenTexts} \cup {JNum(0), JNum(5), JNull}

Objects == {JObject(v) : v \in GenValues} \cup {JEmptyObject}

Payloads ==
  {BadJson, JNull, JNum(5), JStr(<<"a", ".">>), JList(<<>>),
   JList(<<JStr(<<"a", ".">>)>>), JList(<<JNull>>)}
  \cup Objects
  \cup {JList(<<o>>) : o \in Objects}

\* what _call_huggingface_api hands back: a text, None, or an exception
ApiText(s) == [tag |-> "text", text |-> s]
ApiNone == [tag |-> "none", text |-> <<>>]
ApiRaise == [tag |-> "raise", text |-> <<>>]

\* truth value of a JSON scalar in `if generated_text:`
Truthy(v) ==
  CASE v.t = "str" -> v.s # <<>>
    [] v.t = "num" -> v.n # 0
    [] OTHER -> FALSE

\* obj.get('generated_text', '') followed by the test and the strip()
Extract(obj) ==
  LET generated_text == IF obj.has THEN obj.gt ELSE JStr(<<>>) IN
  IF ~Truthy(generated_text) THEN ApiNone
  ELSE IF generated_text.t = "str" THEN ApiText(Strip(generated_text.s))
  ELSE ApiRaise

\* the branch for status 200
ParseResult(payload) ==
  IF payload.t = "badjson" THEN ApiNone
  ELSE IF payload.t = "list" /\ Len(payload.items) > 0
  THEN IF payload.items[1].t = "dict" THEN Extract(payload.items[1])
       ELSE ApiRaise
  ELSE IF payload.t = "dict" THEN Extract(payload)
  ELSE ApiNone

KeepTrailingRun(s) == s
\* re.sub(r'[^.!?]+$', '', review)
DropTrailingRun(s) ==
  LET ends == {i \in 1..Len(s) : s[i] \in Punctuation}
      last == IF ends = {} THEN 0
              ELSE CHOOSE i \in ends : \A j \in ends : j <= i
  IN  SubSeq(s, 1, last)

CleanReviewResponse(review) ==
  IF review = <<>> THEN <<>>
  ELSE LET cut == DropTrailingRun(review)
           done == IF cut # <<>> /\ cut[Len(cut)] \notin Punctuation
                   THEN Append(cut, ".")
                   ELSE cut
       IN  Strip(done)

\* complexity of the fallback report
Complexity(added_lines) ==
  IF added_lines > 100 THEN "HIGH"
  ELSE IF added_lines > 50 THEN "MEDIUM"
  ELSE "LOW"

CountLines(lines, has, hasNot) ==
  Cardinality({i \in 1..Len(lines) :
                 StartsWith(lines[i], has) /\ ~StartsWith(lines[i], hasNot)})

Review(s) ==
  [tag |-> "review", text |-> s, nodiff |-> FALSE, files |-> 0,
   added |-> 0, removed |-> 0, complexity |-> ""]
HfRaised ==
  [tag |-> "raised", text |-> <<>>, nodiff |-> FALSE, files |-> 0,
   added |-> 0, removed |-> 0, complexity |-> ""]
HfPending ==
  [tag |-> "pending", text |-> <<>>, nodiff |-> FALSE, files |-> 0,
   added |-> 0, removed |-> 0, complexity |-> ""]

\* the fallback report: the fixed template with its four fields
GenerateFallbackReview(diff) ==
  IF diff = <<>>
  THEN [tag |-> "fallback", text |-> <<>>, nodiff |-> TRUE, files |-> 0,
        added |-> 0, removed |-> 0, complexity |-> ""]
  ELSE LET lines == SplitLines(diff)
           added_lines == CountLines(lines, <<"+">>, <<"+", "+", "+">>)
           removed_lines == CountLines(lines, <<"-">>, <<"-", "-", "-">>)
           file_changes ==
             Cardinality({i \in 1..Len(lines) :
                            StartsWith(lines[i], <<"+", "+", "+">>)})
       IN  [tag |-> "fallback", text |-> <<>>, nodiff |-> FALSE,
            files |-> file_changes, added |-> added_lines,
            removed |-> removed_lines,
            complexity |-> Complexity(added_lines)]

\* config.max_diff_length, the character budget of the prompt's diff
max_diff_length == 6

\* str.rfind('\n') as a 0-based index, -1 when there is none
RFindNewline(s) ==
  LET at == {i \in 1..Len(s) : s[i] = "\n"} IN
  IF at = {} THEN -1 ELSE (CHOOSE i \in at : \A j \in at : j <= i) - 1

\* `last_newline > max_chars * 0.8`
RecentNewline(last_newline, budget) == 5 * last_newline > 4 * budget

\* truncate_content(content, max_chars)
TruncateContent(text, budget) ==
  IF Len(text) <= budget THEN text
  ELSE LET cut == SubSeq(text, 1, budget)
           last_newline == RFindNewline(cut)
       IN  IF RecentNewline(last_newline, budget)
           THEN SubSeq(cut, 1, last_newline)
           ELSE cut

\* arguments of truncate_content called on its own: budgets up to MaxBudget
\* and texts of letters and newlines up to one character longer
MaxBudget == 10

Contents == UNION {[1..n -> {"a", "\n"}] : n \in 0..(MaxBudget + 1)}

\* generate_review after the API call: post-processing of a non-empty text
GenerateReview(api) ==
  IF api.tag = "text" /\ api.text # <<>>
  THEN ApiText(CleanReviewResponse(api.text))
  ELSE api

WithFallbackOnPromptDiff(review, diff) ==
  IF review.tag = "raise" THEN HfRaised
  ELSE IF review.tag = "text" /\ review.text # <<>> THEN Review(review.text)
  ELSE GenerateFallbackReview(TruncateContent(diff, max_diff_length))

\* generate_review_with_fallback after generate_review
WithFallback(review, diff) ==
  IF review.tag = "raise" THEN HfRaised
  ELSE IF review.tag = "text" /\ review.text # <<>> THEN Review(review.text)
  ELSE GenerateFallbackReview(diff)

\* the diffs review_single_pr hands over are those get_pull_request_diff
\* returned: not empty, with a marker line
Diffs ==
  {<<"+", "a", "\n", "-", "b">>,
   <<"+", "+", "+", "\n", "+", "x", "\n", "x">>,
   <<"-", "-", "-", "\n", "-", "y", "\n", "+", "z", "\n", "+", "w">>}

Descriptions == {<<>>, <<"d">>}

\* diffs for _generate_fallback_review called on its own: a file marker and
\* n added lines
MaxAddedLines == 101

DiffWithAdded(n) ==
  [i \in 1..(3 + 2 * n) |->
     IF i <= 3 THEN "+" ELSE IF i % 2 = 0 THEN "\n" ELSE "+"]

HfStatuses == {200, 204, 404, 429, 500, 503}

HfResponse(status, payload) ==
  [kind |-> "response", status |-> status, payload |-> payload]
HfExc(kind) == [kind |-> kind, status |-> 0, payload |-> JNull]
NoHfOutcome == HfExc("none")

LoadingWaitLikeError(rc) == 5 * (rc + 1)

\* 10 * (retry_count + 1) and 5 * (retry_count + 1)
LoadingWait(rc) == 10 * (rc + 1)
ErrorWait(rc) == 5 * (rc + 1)

NoHfWait == [kind |-> "none", retry |-> 0, secs |-> 0]
HfSlept(kind, rc, secs) == [kind |-> kind, retry |-> rc, secs |-> secs]

RetriesExhaustedEarly(rc, mr) == rc >= mr - 2

\* `if retry_count >= config.max_retries` at the entry of the API call
RetriesExhausted(rc, mr) == rc >= mr

IsAnyError(status) == 400 <= status /\ status < 600

\* `500 <= response.status_code < 600`
IsServerError(status) == 500 <= status /\ status < 600

\* `retry_count < config.max_retries` guarding the retries
HfCanRetry(rc, mr) == rc < mr

\* ------------------------------------------------- the repository gateway
MaxPrs == 2

\* a key that the JSON object does not have
Missing == [t |-> "missing"]

\* the JSON object of one pull request, with the members the client reads
BasePr ==
  [t |-> "pr", number |-> JNum(7), title |-> JStr(<<"t">>),
   body |-> JStr(<<"b">>), html_url |-> JStr(<<"u">>),
   user |-> [t |-> "user", login |-> JStr(<<"b", "o", "b">>)],
   state |-> JStr(<<"o">>), created_at |-> JStr(<<"c">>),
   updated_at |-> Missing]

\* the JSON object of a user; a Missing login makes it the empty object
UserObject(login) == [t |-> "user", login |-> login]

Numbers == {Missing, JNull, JNum(0), JNum(-1), JNum(7)}
Urls == {Missing, JStr(<<>>), JStr(<<"u">>)}
Titles == {Missing, JNull, JStr(<<>>)}
Users ==
  {Missing, JNull, JStr(<<"b", "o", "b">>), UserObject(Missing),
   UserObject(JNull)}

PrObjects ==
  {[BasePr EXCEPT !.number = n, !.html_url = u] : n \in Numbers, u \in Urls}
  \cup {[BasePr EXCEPT !.title = v] : v \in Titles}
  \cup {[BasePr EXCEPT !.body = v] : v \in Titles}
  \cup {[BasePr EXCEPT !.user = v] : v \in Users}
  \cup {[BasePr EXCEPT !.state = v, !.created_at = v] : v \in {Missing, JNull}}

\* the entries of a listing: objects and values that are no objects
PrEntries == PrObjects \cup {JNull, JNum(1), JStr(<<"x">>)}

PrLists == UNION {[1..n -> PrEntries] : n \in 0..MaxPrs}

\* the bodies of a listing response
ListBodies ==
  {BadJson, JNull, JStr(<<"x">>), BasePr} \cup {JList(l) : l \in PrLists}

\* the bodies of a single pull-request response
DetailBodies ==
  {BadJson, JNull, JStr(<<"x">>), JList(<<>>), JList(<<BasePr>>)}
  \cup PrObjects

\* what self._make_request(url) gives the gateway: None, an exception,
\* or a response with a body
GwNone == [tag |-> "none", body |-> JNull]
GwRaised == [tag |-> "raised", body |-> JNull]
GwResponse(body) == [tag |-> "response", body |-> body]
NoGwCall == [tag |-> "nocall", body |-> JNull]

\* isinstance(v, dict)
IsDict(v) == v.t \in {"pr", "user", "dict"}

\* d.get(key): None for a key that is not there
Get(v) == IF v = Missing THEN JNull ELSE v

\* d.get(key, default)
GetOr(v, default) == IF v = Missing THEN default ELSE v

\* `not v` for a JSON value
Falsy(v) ==
  CASE v.t = "null" -> TRUE
    [] v.t = "str" -> v.s = <<>>
    [] v.t = "num" -> v.n = 0
    [] v.t = "list" -> v.items = <<>>
    [] v.t = "user" -> v.login = Missing
    [] OTHER -> FALSE

\* `v or default`
Or(v, default) == IF Falsy(v) THEN default ELSE v

Untitled == JStr(<<"U", "n", "t", "i", "t", "l", "e", "d">>)
Unknown == JStr(<<"u", "n", "k", "n", "o", "w", "n">>)
EmptyStr == JStr(<<>>)

\* user_obj = pr.get('user') or {}; its login if it is a dict, else 'unknown'
Author(pr) ==
  LET user_obj == Or(Get(pr.user), UserObject(Missing)) IN
  IF IsDict(user_obj) THEN Get(user_obj.login) ELSE Unknown

\* pr_dict of get_open_pull_requests
PrDict(pr) ==
  [number |-> Get(pr.number),
   title |-> Or(Get(pr.title), Untitled),
   body |-> Or(Get(pr.body), EmptyStr),
   html_url |-> Or(Get(pr.html_url), EmptyStr),
   user |-> Author(pr)]

\* `pr_dict['number'] is None or not pr_dict['html_url']`
EssentialMissing(pr_dict) ==
  pr_dict.number = JNull \/ Falsy(pr_dict.html_url)

\* the loop over prs
RECURSIVE ExtractPrs(_)
ExtractPrs(prs) ==
  IF prs = <<>> THEN <<>>
  ELSE LET pr == Head(prs)
           rest == ExtractPrs(Tail(prs))
       IN  IF ~IsDict(pr) THEN rest
           ELSE IF EssentialMissing(PrDict(pr)) THEN rest
           ELSE <<PrDict(pr)>> \o rest

\* results of the gateway calls
GwList(items) == [tag |-> "list", items |-> items]
GwAbsent == [tag |-> "absent"]
GwRaise == [tag |-> "raised"]
GwPending == [tag |-> "pending"]
GwDetail(d) == [tag |-> "detail", detail |-> d]
GwDiff(text) == [tag |-> "diff", text |-> text]

\* get_open_pull_requests after the request
GetOpenPullRequests(response) ==
  IF response.tag = "raised" THEN GwRaise
  ELSE IF response.tag = "none" THEN GwList(<<>>)
  ELSE IF response.body = BadJson THEN GwList(<<>>)
  ELSE IF response.body.t # "list" THEN GwList(<<>>)
  ELSE GwList(ExtractPrs(response.body.items))

\* the dictionary get_pull_request_details returns
DetailDict(pr_data) ==
  [number |-> Get(pr_data.number),
   title |-> Or(Get(pr_data.title), Untitled),
   body |-> Or(Get(pr_data.body), EmptyStr),
   html_url |-> Or(Get(pr_data.html_url), EmptyStr),
   user |-> Author(pr_data),
   state |-> GetOr(pr_data.state, Unknown),
   created_at |-> GetOr(pr_data.created_at, EmptyStr),
   updated_at |-> GetOr(pr_data.updated_at, EmptyStr)]

\* get_pull_request_details after the request
GetPullRequestDetails(response) ==
  IF response.tag = "raised" THEN GwRaise
  ELSE IF response.tag = "none" THEN GwAbsent
  ELSE IF response.body = BadJson THEN GwAbsent
  ELSE IF ~IsDict(response.body) THEN GwAbsent
  ELSE GwDetail(DetailDict(response.body))

\* `[:10]` of the diff check
DiffHeadLines == 10

HeadLinesAll(lines) == lines

\* diff_content.split('\n')[:10], as a sequence of lines
HeadLines(lines) == SubSeq(lines, 1, Min(DiffHeadLines, Len(lines)))

\* the tuple given to line.startswith
DiffMarkers ==
  {<<"+", "+", "+">>, <<"-", "-", "-">>, <<"+">>, <<"-">>, <<"@", "@">>}

HasMarker(line) == \E m \in DiffMarkers : StartsWith(line, m)

\* get_pull_request_diff after the request
GetPullRequestDiff(response) ==
  IF response.tag = "raised" THEN GwRaise
  ELSE IF response.tag = "none" THEN GwAbsent
  ELSE LET diff_content == response.body IN
       IF diff_content = <<>> \/ Strip(diff_content) = <<>> THEN GwAbsent
       ELSE LET lines == HeadLines(SplitLines(diff_content)) IN
            IF ~\E i \in 1..Len(lines) : HasMarker(lines[i]) THEN GwAbsent
            ELSE GwDiff(diff_content)

\* response texts: up to MaxLeadLines lines without a marker, then a last
\* line
MaxLeadLines == 11

RECURSIVE Repeat(_, _)
Repeat(s, n) == IF n = 0 THEN <<>> ELSE s \o Repeat(s, n - 1)

LeadLines == {<<"x", "\n">>, <<"\n">>, <<" ", "+", "\n">>}

LastLines ==
  {<<>>, <<"y">>, <<"+", "a">>, <<"-">>, <<"@", "@">>, <<"@">>,
   <<" ", "-">>, <<"-", "-", "-", " ", "a">>}

DiffTexts ==
  {Repeat(lead, n) \o last :
     lead \in LeadLines, n \in 0..MaxLeadLines, last \in LastLines}
  \cup {<<" ">>, <<"\t", "\n", " ">>}

\* what self._make_request can give for a request with these bodies
MakeRequestResults(bodies) ==
  {GwNone, GwRaised} \cup {GwResponse(b) : b \in bodies}

\* ------------------------------------------------------- the orchestrator
\* sys.argv[1:], each argument a text
ArgVectors ==
  {<<>>,
   <<<<"7">>>>,
   <<<<"-", "-", "p", "r">>, <<"7">>>>,
   <<<<"-", "-", "p", "r">>, <<"1", "2">>, <<"x">>>>,
   <<<<"-", "-", "p", "r">>>>,
   <<<<"-", "-", "p", "r">>, <<"x">>>>,
   <<<<"-", "-", "p", "r">>, <<>>>>,
   <<<<"x">>>>,
   <<<<"7", "x">>>>,
   <<<<"-">>>>,
   <<<<>>>>,
   <<<<"0">>>>,
   <<<<"-", "-", "p", "r">>, <<"0">>>>,
   <<<<"-", "5">>>>,
   <<<<"-", "-", "p", "r">>, <<"-", "5">>>>}

\* pr_number after the argument parsing, or sys.exit(1) inside it
ArgNone == [tag |-> "none", n |-> 0]
ArgNumber(n) == [tag |-> "number", n |-> n]
ArgExit == [tag |-> "exit", n |-> 0]

PrFlag == <<"-", "-", "p", "r">>

\* `arg.isdigit() or (arg.startswith('-') and arg[1:].isdigit())`
LooksNumeric(arg) ==
  AllDigits(arg) \/ (StartsWith(arg, <<"-">>) /\ AllDigits(Tail(arg)))

\* the parsing of sys.argv in main
ParseArgv(args) ==
  IF Len(args) = 0 THEN ArgNone
  ELSE LET arg == args[1] IN
       IF arg = PrFlag /\ Len(args) > 1
       THEN IF IsIntText(args[2]) THEN ArgNumber(IntOf(args[2]))
            ELSE ArgExit
       ELSE IF LooksNumeric(arg) THEN ArgNumber(IntOf(arg))
       ELSE ArgExit

\* what main does with pr_number: `if pr_number:` and `if pr_number <= 0`
RunAll == [tag |-> "all", n |-> 0]
RunSingle(n) == [tag |-> "single", n |-> n]
RunExit(code) == [tag |-> "exit", n |-> code]

Dispatch(parsed) ==
  IF parsed.tag = "exit" THEN RunExit(1)
  ELSE IF parsed.tag = "number" /\ parsed.n # 0
  THEN IF parsed.n <= 0 THEN RunExit(1) ELSE RunSingle(parsed.n)
  ELSE RunAll

\* what get_open_pull_requests can hand to review_all_open_prs: the numbers
\* of the summaries of a list, or an exception
Listing(numbers) == [tag |-> "list", numbers |-> numbers]
ListingRaised == [tag |-> "raised", numbers |-> <<>>]

NumbersOf(result) ==
  IF result.tag = "raised" THEN ListingRaised
  ELSE Listing([k \in 1..Len(result.items) |-> result.items[k].number.n])

Listings ==
  {NumbersOf(GetOpenPullRequests(r)) : r \in MakeRequestResults(ListBodies)}

ValidatePrDataLax(pr_data) == TRUE
\* validate_pr_data on a dictionary of get_pull_request_details: the four
\* required keys are always there, the number has to be a positive integer
ValidatePrData(pr_data) ==
  pr_data.number.t = "num" /\ pr_data.number.n > 0

\* what review_single_pr sees of the detail: absent, an exception, data that
\* fails the validation, or valid data with or without a URL
DetailOutcome(result) ==
  IF result.tag = "raised"
  THEN [tag |-> "raised", url |-> FALSE, number |-> JNull]
  ELSE IF result.tag = "absent"
  THEN [tag |-> "absent", url |-> FALSE, number |-> JNull]
  ELSE IF ~ValidatePrData(result.detail)
  THEN [tag |-> "invalid", url |-> FALSE, number |-> result.detail.number]
  ELSE [tag |-> "valid", url |-> ~Falsy(result.detail.html_url),
        number |-> result.detail.number]

\* no detail was fetched for the pull request at hand
NoPrData == [tag |-> "none", url |-> FALSE, number |-> JNull]

DetailOutcomes ==
  {DetailOutcome(GetPullRequestDetails(r)) :
     r \in MakeRequestResults(DetailBodies)}

\* the diff: absent, an exception, or a text
DiffOutcomes ==
  {GetPullRequestDiff(r).tag : r \in MakeRequestResults(DiffTexts)}

\* generate_review_with_fallback returns a text or raises
ReviewOutcomes == {"review", "raised"}

\* the f.write calls of save_review: seven, six when pr_url is empty
DocumentParts(url) == IF url THEN 7 ELSE 6

\* the events of one pull request, in the order of review_single_pr
StepRank(step) ==
  CASE step = "none" -> 0
    [] step = "detail" -> 1
    [] step = "diff" -> 2
    [] step = "generate" -> 3
    [] step = "save" -> 4

Event(k, step, number) == [i |-> k, step |-> step, number |-> number]
NoEvent == Event(0, "none", 0)

\* the final log line of review_all_open_prs was not written
NoReport == [successful |-> -1, total |-> -1]

\* ------------------------------------------------------ the configuration
\* an environment variable: unset, or a text
EnvUnset == [t |-> "unset", s |-> <<>>]
EnvText(s) == [t |-> "text", s |-> s]

\* os.getenv(key, default)
GetEnv(v, default) == IF v.t = "unset" THEN default ELSE v.s

\* the result of a step of Config(): a value, or ValueError
CfgValue(v) == [tag |-> "ok", v |-> v]
CfgRaised == [tag |-> "raised", v |-> <<>>]

\* _get_required: `if not value or not value.strip()` raises, else the
\* stripped value
GetRequired(v) ==
  IF v.t = "unset" \/ v.s = <<>> \/ Strip(v.s) = <<>> THEN CfgRaised
  ELSE CfgValue(Strip(v.s))

Http == <<"h", "t", "t", "p">>
GithubCom == <<"g", "i", "t", "h", "u", "b", ".", "c", "o", "m">>
DotGitChars == {".", "g", "i", "t"}
Slash == <<"/">>

\* '/' in text
HasSlash(s) == \E k \in 1..Len(s) : s[k] = "/"

\* str.rstrip('.git'): the trailing characters that are in the argument
RECURSIVE RStripChars(_, _)
RStripChars(s, chars) ==
  IF s # <<>> /\ s[Len(s)] \in chars
  THEN RStripChars(SubSeq(s, 1, Len(s) - 1), chars)
  ELSE s

\* the text after position p is `([^/]+)/([^/]+)/?$`: one slash with a
\* segment on each side, or a second slash that ends the text
TwoSegments(rest) ==
  LET at == {k \in 1..Len(rest) : rest[k] = "/"} IN
  \/ Cardinality(at) = 1 /\ 1 \notin at /\ Len(rest) \notin at
  \/ /\ Cardinality(at) = 2
     /\ Len(rest) \in at
     /\ 1 \notin at
     /\ (Len(rest) - 1) \notin at

\* the f"{match.group(1)}/{match.group(2)}" of such a text
OwnerRepo(rest) ==
  IF rest[Len(rest)] = "/" THEN SubSeq(rest, 1, Len(rest) - 1) ELSE rest

\* the positions where `github\.com[/:]` matches and the rest of the
\* pattern matches up to the end of the text
RepoMatches(s) ==
  {p \in 1..Len(s) :
     /\ p + Len(GithubCom) <= Len(s)
     /\ SubSeq(s, p, p + Len(GithubCom) - 1) = GithubCom
     /\ s[p + Len(GithubCom)] \in {"/", ":"}
     /\ TwoSegments(SubSeq(s, p + Len(GithubCom) + 1, Len(s)))}

\* _parse_repository
ParseRepository(text) ==
  LET repo_input == Strip(text) IN
  IF HasSlash(repo_input) /\ ~StartsWith(repo_input, Http)
  THEN CfgValue(repo_input)
  ELSE IF StartsWith(repo_input, Http)
  THEN LET stripped == RStripChars(repo_input, DotGitChars)
           found == RepoMatches(stripped)
       IN  IF found = {} THEN CfgRaised
           ELSE LET p == CHOOSE q \in found : \A r \in found : q <= r
                IN  CfgValue(OwnerRepo(SubSeq(stripped,
                                              p + Len(GithubCom) + 1,
                                              Len(stripped))))
  ELSE CfgRaised

\* the characters of [A-Za-z0-9_.-]
NameChars ==
  Digits \cup {"_", ".", "-"}
  \cup {"a", "b", "c", "d", "e", "f", "g", "h", "i", "j", "k", "l", "m",
        "n", "o", "p", "q", "r", "s", "t", "u", "v", "w", "x", "y", "z"}
  \cup {"A", "B", "C", "D", "E", "F", "G", "H", "I", "J", "K", "L", "M",
        "N", "O", "P", "Q", "R", "S", "T", "U", "V", "W", "X", "Y", "Z"}

\* the whole text is [A-Za-z0-9_.-]+(?:/[A-Za-z0-9_.-]+)?
IsModelName(s) ==
  LET at == {k \in 1..Len(s) : s[k] = "/"} IN
  /\ Len(s) > 0
  /\ \A k \in 1..Len(s) : s[k] \in NameChars \cup {"/"}
  /\ Cardinality(at) <= 1
  /\ 1 \notin at
  /\ Len(s) \notin at

\* re.match(MODEL_NAME_REGEX, text): `$` matches at the end of the text and
\* also before a newline that ends it
MatchesModelName(s) ==
  \/ IsModelName(s)
  \/ Len(s) > 0 /\ s[Len(s)] = "\n" /\ IsModelName(SubSeq(s, 1, Len(s) - 1))

\* the defaults of the optional settings
DefaultModel ==
  <<"m", "i", "s", "t", "r", "a", "l", "a", "i", "/", "M", "i", "s", "t",
    "r", "a", "l", "-", "7", "B", "-", "I", "n", "s", "t", "r", "u", "c",
    "t", "-", "v", "0", ".", "2">>
DefaultMaxDiffLength == <<"4", "0", "0", "0">>
DefaultRequestTimeout == <<"3", "0">>
DefaultMaxRetries == <<"5">>

\* _validate_config on the values read: ValueError, or nothing
ValidateConfig(c) ==
  /\ MatchesModelName(c.huggingface_model)
  /\ ~(c.max_diff_length <= 0)
  /\ ~(c.request_timeout <= 0)
  /\ ~(c.max_retries < 0)

ConfigPending == [tag |-> "pending", v |-> <<>>]

\* Config(): the steps of __init__ in their order, the first ValueError
\* ends the construction
Construct(e) ==
  LET key == GetRequired(e.HF_API_KEY)
      token == GetRequired(e.GITHUB_TOKEN)
      required == GetRequired(e.GITHUB_REPOSITORY)
      model == GetEnv(e.HUGGINGFACE_MODEL, DefaultModel)
      diff_text == GetEnv(e.MAX_DIFF_LENGTH, DefaultMaxDiffLength)
      timeout_text == GetEnv(e.REQUEST_TIMEOUT, DefaultRequestTimeout)
      retries_text == GetEnv(e.MAX_RETRIES, DefaultMaxRetries)
  IN  IF key.tag = "raised" \/ token.tag = "raised"
         \/ required.tag = "raised"
      THEN CfgRaised
      ELSE IF ParseRepository(required.v).tag = "raised" THEN CfgRaised
      ELSE IF ~IsIntText(diff_text) \/ ~IsIntText(timeout_text)
              \/ ~IsIntText(retries_text)
      THEN CfgRaised
      ELSE LET c == [huggingface_api_key |-> key.v,
                     github_token |-> token.v,
                     github_repository |-> ParseRepository(required.v).v,
                     huggingface_model |-> model,
                     max_diff_length |-> IntOf(diff_text),
                     request_timeout |-> IntOf(timeout_text),
                     max_retries |-> IntOf(retries_text)]
           IN  IF ValidateConfig(c) THEN CfgValue(c) ELSE CfgRaised

\* environments: one variable at a time is changed in a complete one
Owners == {<<"a">>, <<"h", "t", "t", "p", "d">>}
Repos == {<<"x">>, <<"i", "t">>, <<"x", "g">>}
DotGit == <<".", "g", "i", "t">>
Url(owner, repo) ==
  Http \o <<"s", ":", "/", "/">> \o GithubCom \o Slash \o owner \o Slash
  \o repo
Identifier(owner, repo) == owner \o Slash \o repo

RepositoryTexts ==
  {<<>>, <<" ">>, <<"x">>, <<" ", "a", "/", "x", "\n">>,
   Http \o <<":", "/", "/", "x", "/", "a", "/", "x">>}
  \cup {Identifier(o, r) : o \in Owners, r \in Repos}
  \cup {Url(o, r) : o \in Owners, r \in Repos}
  \cup {Url(o, r) \o DotGit : o \in Owners, r \in Repos}
  \cup {Url(o, r) \o Slash : o \in Owners, r \in Repos}

RequiredTexts == {<<>>, <<" ">>, <<"\t", "\n">>, <<"k">>, <<" ", "k", " ">>}

ModelTexts ==
  {<<>>, <<"m">>, <<"o", "/", "m">>, <<"m", "\n">>, <<"o", "/">>,
   <<"/", "m">>, <<"a", "/", "b", "/", "c">>, <<"m", " ", "m">>,
   <<"m", "!">>, <<"M", "-", "7", ".", "_">>, <<"\n">>,
   <<"m", "\n", "\n">>}

NumberTexts == {<<>>, <<"1">>, <<"0">>, <<"-", "1">>, <<"x">>, <<"2", "0">>}

Settings(texts) == {EnvUnset} \cup {EnvText(s) : s \in texts}

BaseEnv ==
  [HF_API_KEY |-> EnvText(<<"k">>),
   GITHUB_TOKEN |-> EnvText(<<"k">>),
   GITHUB_REPOSITORY |-> EnvText(<<"a", "/", "x">>),
   HUGGINGFACE_MODEL |-> EnvUnset,
   MAX_DIFF_LENGTH |-> EnvUnset,
   REQUEST_TIMEOUT |-> EnvUnset,
   MAX_RETRIES |-> EnvUnset]

\* the complete environment with this GITHUB_REPOSITORY
WithRepository(text) == [BaseEnv EXCEPT !.GITHUB_REPOSITORY = EnvText(text)]

Envs ==
  {[BaseEnv EXCEPT !.HF_API_KEY = v] : v \in Settings(RequiredTexts)}
  \cup {[BaseEnv EXCEPT !.GITHUB_TOKEN = v] : v \in Settings(RequiredTexts)}
  \cup {[BaseEnv EXCEPT !.GITHUB_REPOSITORY = v] :
          v \in Settings(RepositoryTexts)}
  \cup {[BaseEnv EXCEPT !.HUGGINGFACE_MODEL = v] : v \in Settings(ModelTexts)}
  \cup {[BaseEnv EXCEPT !.MAX_DIFF_LENGTH = v] : v \in Settings(NumberTexts)}
  \cup {[BaseEnv EXCEPT !.REQUEST_TIMEOUT = v] : v \in Settings(NumberTexts)}
  \cup {[BaseEnv EXCEPT !.MAX_RETRIES = v] : v \in Settings(NumberTexts)}

\* -------------------------------------------- _clean_review_response alone
MaxReviewLen == 4

\* generated texts of the model, and what generate_review hands to
\* _clean_review_response: the stripped text, when it is not empty
GeneratedTexts ==
  UNION {[1..n -> {"a", ".", "?", " ", "\n"}] : n \in 0..MaxReviewLen}

ReviewArguments == {Strip(t) : t \in GeneratedTexts} \ {<<>>}

VARIABLES
  pc,                    \* where the single thread of control is
  max_retries,           \* config.max_retries
  attempt,               \* loop variable of _make_request
  rate_limit_remaining,  \* self.rate_limit_remaining
  sinceLast,             \* time.time() - self.last_request_time, saturating
  sinceGet,              \* time since the previous session.get was issued
  anyGet,                \* a session.get was issued on this client before
  lastGap,               \* spacing of the last two GETs (-1: no predecessor)
  attempts,              \* GETs issued by this invocation
  sleeps,                \* sleeps inside the retry loop of this invocation
  lastSleep,             \* the sleep that followed the last GET
  lastOutcome,           \* outcome of the last GET of this invocation
  uniform,               \* the one kind of outcome seen so far, or "mixed"
  ghResult,              \* what the invocation returned
  diff_content,          \* the diff handed to generate_review_with_fallback
  pr_description,        \* the description handed to it
  truncated_diff,        \* the diff that generate_review puts in the prompt
  retry_count,           \* argument of _call_huggingface_api
  posts,                 \* requests.post calls of this review
  hfWait,                \* the sleep that followed the last post
  hfOutcome,             \* outcome of the last post
  loadingOnly,           \* every post before the last one was answered 503
  transportOnly,         \* every post raised Timeout or ConnectionError
  hfResult,              \* what generate_review_with_fallback returned
  probe,                 \* response handed to _handle_rate_limit directly
  probeResult,           \* what _handle_rate_limit returned for it
  gwResponse,            \* what _make_request gave the gateway call
  gwResult,              \* what the gateway call returned
  content,               \* argument of truncate_content
  max_chars,             \* its character budget
  truncated,             \* what truncate_content returned
  argv,                  \* sys.argv[1:]
  exit_code,             \* exit status of the process (-1: still running)
  prs,                   \* numbers of the listing of review_all_open_prs
  pr_index,              \* i of review_all_open_prs (0: a single PR)
  pr_number,             \* argument of review_single_pr
  pr_url,                \* pr_data['html_url'] is not empty
  pr_data,               \* what the detail fetch of this pull request gave
  diff_fetched,          \* what its diff fetch gave ("none": not fetched)
  written,               \* f.write calls done on the open review document
  files,                 \* review document of each review_single_pr call
  attempted,             \* calls of review_single_pr for each listing index
  successful_reviews,    \* counter of review_all_open_prs
  reported,              \* the counts of its final log line
  success,               \* what review_single_pr returned
  lastEvent,             \* the last step review_single_pr took
  succeeded,             \* indices whose review_single_pr returned True
  env,                   \* the environment Config() reads
  config,                \* the configuration, or the error of Config()
  review,                \* argument of _clean_review_response
  cleaned                \* what it returned

ghVars ==
  <<pc, max_retries, attempt, rate_limit_remaining, sinceLast, sinceGet,
    anyGet, lastGap, attempts, sleeps, lastSleep, lastOutcome, uniform,
    ghResult>>

hfVars ==
  <<diff_content, pr_description, truncated_diff, retry_count, posts, hfWait, hfOutcome,
    loadingOnly, transportOnly, hfResult>>

probeVars == <<probe, probeResult>>

gwVars == <<gwResponse, gwResult>>

truncVars == <<content, max_chars, truncated>>

orchVars ==
  <<argv, exit_code, prs, pr_index, pr_number, pr_url, pr_data,
    diff_fetched, written, files, attempted, successful_reviews, reported, success, lastEvent,
    succeeded>>

cfgVars == <<env, config>>

cleanVars == <<review, cleaned>>

restVars == <<orchVars, cfgVars, cleanVars>>

vars == <<ghVars, hfVars, probeVars, gwVars, truncVars, restVars>>

\* The state after construction.  A run exercises one part of the program:
\* the hosting client (pc = "idle"), the review generator (pc = "hf_idle")
\* or _handle_rate_limit called on its own, as the unit tests do
\* (pc = "probe"), or one call of the repository gateway on the outcome of
\* its request (pc = "gw_list", "gw_detail", "gw_diff"), or one call of
\* _generate_fallback_review (pc = "fb"), of truncate_content
\* (pc = "trunc") or of _clean_review_response (pc = "clean"), or the
\* construction of the configuration (pc = "cfg"), or a run of main on the
\* outcomes of the gateway and generator calls (pc = "main").  The parts
\* share no state but the configuration.
Init ==
  /\ pc \in {"idle", "hf_idle", "probe", "gw_list", "gw_detail", "gw_diff",
            "fb", "trunc", "main", "cfg", "clean"}
  /\ argv = <<>>
  /\ exit_code = -1
  /\ prs = <<>>
  /\ pr_index = 0
  /\ pr_number = 0
  /\ pr_url = FALSE
  /\ pr_data = NoPrData
  /\ diff_fetched = "none"
  /\ written = 0
  /\ files = <<>>
  /\ attempted = <<>>
  /\ successful_reviews = 0
  /\ reported = NoReport
  /\ success = FALSE
  /\ lastEvent = NoEvent
  /\ succeeded = {}
  /\ env = BaseEnv
  /\ config = ConfigPending
  /\ review = <<>>
  /\ cleaned = <<>>
  /\ gwResponse = NoGwCall
  /\ gwResult = GwPending
  /\ content = <<>>
  /\ max_chars = 1
  /\ truncated = <<>>
  /\ diff_content = <<>>
  /\ pr_description = <<>>
  /\ truncated_diff = <<>>
  /\ retry_count = 0
  /\ posts = 0
  /\ hfWait = NoHfWait
  /\ hfOutcome = NoHfOutcome
  /\ loadingOnly = TRUE
  /\ transportOnly = TRUE
  /\ hfResult = HfPending
  /\ probe = NoOutcome
  /\ probeResult = NoWait
  /\ max_retries \in 0..MaxRetries
  /\ (pc \notin {"idle", "hf_idle"} => max_retries = 0)
  /\ attempt = 0
  /\ rate_limit_remaining = InitRemaining
  /\ sinceLast = TicksPerSec
  /\ sinceGet = TicksPerSec
  /\ anyGet = FALSE
  /\ lastGap = -1
  /\ attempts = 0
  /\ sleeps = 0
  /\ lastSleep = NoSleep
  /\ lastOutcome = NoOutcome
  /\ uniform = "none"
  /\ ghResult = Pending

\* the sleep before the loop: 1.0 - time_since_last when that is positive
ThrottleSleep(since) ==
  IF since < 1 * TicksPerSec THEN 1 * TicksPerSec - since ELSE 0

\* time that passes between the return of one call and the next call
Elapsed == 0..TicksPerSec

\* entry of _make_request up to the loop, `elapsed` ticks after the
\* previous call returned
MakeRequest ==
  /\ pc = "idle"
  /\ pc' = "gh_loop"
  /\ attempt' = 0
  /\ \E elapsed \in Elapsed :
       LET time_since_last == Sat(sinceLast + elapsed) IN
       /\ sinceLast' = Sat(time_since_last + ThrottleSleep(time_since_last))
       /\ sinceGet' = Sat(sinceGet + elapsed + ThrottleSleep(time_since_last))
  /\ attempts' = 0
  /\ sleeps' = 0
  /\ lastSleep' = NoSleep
  /\ lastOutcome' = NoOutcome
  /\ uniform' = "none"
  /\ ghResult' = Pending
  /\ UNCHANGED <<max_retries, rate_limit_remaining, anyGet, lastGap>>
  /\ UNCHANGED <<hfVars, probeVars, gwVars, truncVars, restVars>>

\* One iteration of the loop: the GET is issued, takes dur ticks and yields
\* out; the handler then sleeps for sl.ticks (sl.kind = "none": no sleep)
\* and either continues with the next attempt or leaves with res.
Iteration(out, dur, sl, continue, res, remaining) ==
  /\ lastGap' = IF anyGet THEN sinceGet ELSE -1
  /\ anyGet' = TRUE
  /\ sinceGet' = Sat(dur + sl.ticks)
  /\ sinceLast' = IF out.kind = "response" THEN Sat(sl.ticks)
                  ELSE Sat(sinceLast + dur + sl.ticks)
  /\ rate_limit_remaining' = remaining
  /\ attempts' = Min(attempts + 1, MaxRetries + 3)
  /\ sleeps' = IF sl.kind = "none" THEN sleeps
               ELSE Min(sleeps + 1, MaxRetries + 3)
  /\ lastSleep' = sl
  /\ lastOutcome' = out
  /\ uniform' = IF uniform \in {"none", out.kind} THEN out.kind ELSE "mixed"
  /\ IF continue
       THEN /\ pc' = "gh_loop"
            /\ attempt' = NextAttempt(attempt)
            /\ ghResult' = Pending
       ELSE /\ pc' = "idle"
            /\ attempt' = attempt
            /\ ghResult' = res
  /\ UNCHANGED max_retries
  /\ UNCHANGED <<hfVars, probeVars, gwVars, truncVars, restVars>>

InLoop == pc = "gh_loop" /\ attempt < AttemptLimit(max_retries)

\* session.get returned a response.  Where the handler sleeps, the sleep of
\* a second or more saturates both clock readings whatever time the request
\* took, so the duration is drawn only where the handler returns.
AttemptResponse ==
  /\ InLoop
  /\ \E resp \in Responses :
       LET remText == HeaderGet(resp.remaining, <<"1", "0">>) IN
       IF ~IsIntText(remText)
       THEN \* int() raises ValueError, which no except clause catches
            \E dur \in Durations :
              Iteration(resp, dur, NoSleep, FALSE, Raised,
                        rate_limit_remaining)
       ELSE
         LET rem == ParsedRemaining(remText)
             sleep_time == HandleRateLimit(resp)
         IN
         IF resp.status \in {403, 429}
         THEN
           IF sleep_time.tag = "wait"
           THEN Iteration(resp, 0,
                          Slept("reset", attempt,
                                sleep_time.secs * TicksPerSec),
                          TRUE, Pending, rem)
           ELSE IF CanRetry(attempt, max_retries)
           THEN \E jitter \in Jitters :
                  Iteration(resp, 0,
                            Slept("backoff", attempt,
                                  Backoff(attempt, jitter)),
                            TRUE, Pending, rem)
           ELSE \E dur \in Durations :
                  Iteration(resp, dur, NoSleep, FALSE, ReturnNone, rem)
         ELSE IF IsHttpError(resp.status)
         THEN \E dur \in Durations :
                Iteration(resp, dur, NoSleep, FALSE, ReturnNone, rem)
         ELSE \E dur \in Durations :
                Iteration(resp, dur, NoSleep, FALSE, ReturnResponse(resp),
                          rem)

\* session.get raised Timeout or ConnectionError
RetryOrGiveUp(out, dur) ==
  IF CanRetry(attempt, max_retries)
  THEN \E jitter \in Jitters :
         Iteration(out, dur, Slept("backoff", attempt,
                                   Backoff(attempt, jitter)),
                   TRUE, Pending, rate_limit_remaining)
  ELSE Iteration(out, dur, NoSleep, FALSE, ReturnNone,
                 rate_limit_remaining)

\* a timeout takes at least the connect or read timeout, a second or more
AttemptTimeout ==
  /\ InLoop
  /\ RetryOrGiveUp(Exc("timeout"), TicksPerSec)

AttemptConnectionError ==
  /\ InLoop
  /\ \E dur \in Durations :
       RetryOrGiveUp(Exc("connection"), dur)

\* session.get raised another RequestException
AttemptRequestException ==
  /\ InLoop
  /\ \E dur \in Durations :
       Iteration(Exc("request"), dur, NoSleep, FALSE, ReturnNone,
                 rate_limit_remaining)

\* the loop ran out of iterations: "All retries exhausted"
Exhausted ==
  /\ pc = "gh_loop"
  /\ ~(attempt < AttemptLimit(max_retries))
  /\ pc' = "idle"
  /\ ghResult' = ReturnNone
  /\ UNCHANGED <<max_retries, attempt, rate_limit_remaining, sinceLast,
                 sinceGet, anyGet, lastGap, attempts, sleeps, lastSleep,
                 lastOutcome, uniform>>
  /\ UNCHANGED <<hfVars, probeVars, gwVars, truncVars, restVars>>

\* -------------------------------------------- generate_review_with_fallback
\* entry: generate_review builds the prompt and makes the first API call
GenerateReviewWithFallback ==
  /\ pc = "hf_idle"
  /\ pc' = "hf_call"
  /\ diff_content' \in Diffs
  /\ pr_description' \in Descriptions
  /\ truncated_diff' = TruncateContent(diff_content', max_diff_length)
  /\ retry_count' = 0
  /\ posts' = 0
  /\ hfWait' = NoHfWait
  /\ hfOutcome' = NoHfOutcome
  /\ loadingOnly' = TRUE
  /\ transportOnly' = TRUE
  /\ hfResult' = HfPending
  /\ UNCHANGED <<max_retries, attempt, rate_limit_remaining, sinceLast,
                 sinceGet, anyGet, lastGap, attempts, sleeps, lastSleep,
                 lastOutcome, uniform, ghResult, probeVars, gwVars, truncVars, restVars>>

HfUnchanged ==
  UNCHANGED <<max_retries, attempt, rate_limit_remaining, sinceLast,
              sinceGet, anyGet, lastGap, attempts, sleeps, lastSleep,
              lastOutcome, uniform, ghResult, probeVars, gwVars, truncVars, restVars,
              diff_content, pr_description, truncated_diff>>

\* the chain of API calls returns api; generate_review and the fallback
\* turn it into the result
HfReturn(api) ==
  /\ pc' = "hf_idle"
  /\ hfResult' = WithFallback(GenerateReview(api), diff_content)
  /\ retry_count' = retry_count
  /\ hfWait' = NoHfWait

\* time.sleep(secs), then the recursive call with retry_count + 1
HfRetry(kind, secs) ==
  /\ pc' = "hf_call"
  /\ hfResult' = HfPending
  /\ retry_count' = retry_count + 1
  /\ hfWait' = HfSlept(kind, retry_count, secs)

HfPosted(out) ==
  /\ posts' = Min(posts + 1, MaxRetries + 3)
  /\ hfOutcome' = out
  /\ loadingOnly' =
       (posts = 0 \/ (loadingOnly /\ hfOutcome.kind = "response"
                                  /\ hfOutcome.status = 503))
  /\ transportOnly' =
       (transportOnly /\ out.kind \in {"timeout", "connection"})

\* the retry budget is used up: no request is made
HfGiveUp ==
  /\ pc = "hf_call"
  /\ RetriesExhausted(retry_count, max_retries)
  /\ HfReturn(ApiNone)
  /\ UNCHANGED <<posts, hfOutcome, loadingOnly, transportOnly>>
  /\ HfUnchanged

HfCalling == pc = "hf_call" /\ ~RetriesExhausted(retry_count, max_retries)

\* requests.post returned a response
HfPostResponse ==
  /\ HfCalling
  /\ \E status \in HfStatuses :
       IF status = 200
       THEN \E payload \in Payloads :
              /\ HfPosted(HfResponse(status, payload))
              /\ HfReturn(ParseResult(payload))
       ELSE /\ HfPosted(HfResponse(status, JNull))
            /\ IF status = 503
               THEN HfRetry("loading", LoadingWait(retry_count))
               ELSE IF IsServerError(status)
                       /\ HfCanRetry(retry_count, max_retries)
               THEN HfRetry("error", ErrorWait(retry_count))
               ELSE HfReturn(ApiNone)
  /\ HfUnchanged

\* requests.post raised Timeout, ConnectionError or another RequestException
HfPostException ==
  /\ HfCalling
  /\ \E kind \in {"timeout", "connection", "request"} :
       /\ HfPosted(HfExc(kind))
       /\ IF HfCanRetry(retry_count, max_retries)
          THEN HfRetry("error", ErrorWait(retry_count))
          ELSE HfReturn(ApiNone)
  /\ HfUnchanged

HfStep == HfGiveUp \/ HfPostResponse \/ HfPostException

\* ------------------------------ _generate_fallback_review called on its own
GenerateFallbackReviewCall ==
  /\ pc = "fb"
  /\ pc' = "fb_done"
  /\ \E n \in 0..MaxAddedLines : diff_content' = DiffWithAdded(n)
  /\ hfResult' = GenerateFallbackReview(diff_content')
  /\ UNCHANGED <<pr_description, truncated_diff, retry_count, posts, hfWait,
                 hfOutcome, loadingOnly, transportOnly>>
  /\ UNCHANGED <<max_retries, attempt, rate_limit_remaining, sinceLast,
                 sinceGet, anyGet, lastGap, attempts, sleeps, lastSleep,
                 lastOutcome, uniform, ghResult, probeVars, gwVars,
                 truncVars, restVars>>

\* ------------------------------------- _handle_rate_limit called on its own
HandleRateLimitCall ==
  /\ pc = "probe"
  /\ pc' = "probed"
  /\ probe' \in AllResponses
  /\ probeResult' = HandleRateLimit(probe')
  /\ UNCHANGED <<max_retries, attempt, rate_limit_remaining, sinceLast,
                 sinceGet, anyGet, lastGap, attempts, sleeps, lastSleep,
                 lastOutcome, uniform, ghResult, hfVars, gwVars,
                 truncVars, restVars>>

\* ------------------------------------------------- the repository gateway
GwUnchanged ==
  UNCHANGED <<max_retries, attempt, rate_limit_remaining, sinceLast,
              sinceGet, anyGet, lastGap, attempts, sleeps, lastSleep,
              lastOutcome, uniform, ghResult, hfVars, probeVars, truncVars, restVars>>

GetOpenPullRequestsCall ==
  /\ pc = "gw_list"
  /\ pc' = "gw_listed"
  /\ gwResponse' \in MakeRequestResults(ListBodies)
  /\ gwResult' = GetOpenPullRequests(gwResponse')
  /\ GwUnchanged

GetPullRequestDetailsCall ==
  /\ pc = "gw_detail"
  /\ pc' = "gw_detailed"
  /\ gwResponse' \in MakeRequestResults(DetailBodies)
  /\ gwResult' = GetPullRequestDetails(gwResponse')
  /\ GwUnchanged

GetPullRequestDiffCall ==
  /\ pc = "gw_diff"
  /\ pc' = "gw_diffed"
  /\ gwResponse' \in MakeRequestResults(DiffTexts)
  /\ gwResult' = GetPullRequestDiff(gwResponse')
  /\ GwUnchanged

\* -------------------------------------- truncate_content called on its own
TruncateContentCall ==
  /\ pc = "trunc"
  /\ pc' = "trunc_done"
  /\ content' \in Contents
  /\ max_chars' \in 1..MaxBudget
  /\ truncated' = TruncateContent(content', max_chars')
  /\ UNCHANGED <<max_retries, attempt, rate_limit_remaining, sinceLast,
                 sinceGet, anyGet, lastGap, attempts, sleeps, lastSleep,
                 lastOutcome, uniform, ghResult, hfVars, probeVars, gwVars,
                 restVars>>

GhStep ==
  \/ AttemptResponse
  \/ AttemptTimeout
  \/ AttemptConnectionError
  \/ AttemptRequestException
  \/ Exhausted

\* ------------------------------------------------- actions: orchestrator
OrchUnchanged ==
  UNCHANGED <<max_retries, attempt, rate_limit_remaining, sinceLast,
              sinceGet, anyGet, lastGap, attempts, sleeps, lastSleep,
              lastOutcome, uniform, ghResult, hfVars, probeVars, gwVars,
              truncVars, cfgVars, cleanVars>>

\* sys.exit(code)
Exit(code) ==
  /\ pc' = "exited"
  /\ exit_code' = code

\* main: the command line is parsed, and either the process exits, or
\* review_single_pr is entered for the number, or review_all_open_prs is
Main ==
  /\ pc = "main"
  /\ \E args \in ArgVectors :
       LET run == Dispatch(ParseArgv(args)) IN
       /\ argv' = args
       /\ IF run.tag = "exit"
          THEN /\ Exit(run.n)
               /\ UNCHANGED <<pr_index, pr_number, files, attempted>>
          ELSE IF run.tag = "single"
          THEN /\ pc' = "detail"
               /\ pr_index' = 0
               /\ pr_number' = run.n
               /\ files' = [k \in {0} |-> "absent"]
               /\ attempted' = [k \in {0} |-> 1]
               /\ UNCHANGED exit_code
          ELSE /\ pc' = "list"
               /\ UNCHANGED <<exit_code, pr_index, pr_number, files, attempted>>
  /\ UNCHANGED <<prs, pr_url, written, successful_reviews, reported,
                 success, lastEvent, succeeded>>
  /\ UNCHANGED <<pr_data, diff_fetched>>
  /\ OrchUnchanged

\* review_all_open_prs up to the loop: an exception of the listing is
\* logged, an empty listing returns, and main ends with status 0
ListOpenPullRequests ==
  /\ pc = "list"
  /\ \E listing \in Listings :
       IF listing.tag = "raised" \/ listing.numbers = <<>>
       THEN /\ Exit(0)
            /\ UNCHANGED <<prs, pr_index, files, attempted>>
       ELSE /\ pc' = "loop"
            /\ prs' = listing.numbers
            /\ pr_index' = 1
            /\ files' = [k \in 1..Len(listing.numbers) |-> "absent"]
            /\ attempted' = [k \in 1..Len(listing.numbers) |-> 0]
            /\ UNCHANGED exit_code
  /\ UNCHANGED <<argv, pr_number, pr_url, written, successful_reviews,
                 reported, success, lastEvent, succeeded>>
  /\ UNCHANGED <<pr_data, diff_fetched>>
  /\ OrchUnchanged

PrAtReversed(numbers, k) == numbers[Len(numbers) + 1 - k]
\* the entry that `enumerate(prs, 1)` pairs with i, its number
PrAt(numbers, k) == numbers[k]

\* head of the loop `for i, pr in enumerate(prs, 1)`: after the last entry
\* the counts are logged; an entry whose number is falsy is skipped
LoopHead ==
  /\ pc = "loop"
  /\ IF pr_index > Len(prs)
     THEN /\ Exit(0)
          /\ reported' = [successful |-> successful_reviews,
                          total |-> Len(prs)]
          /\ UNCHANGED <<pr_index, pr_number, attempted>>
     ELSE /\ pr_number' = PrAt(prs, pr_index)
          /\ IF PrAt(prs, pr_index) = 0
             THEN /\ pc' = "loop"
                  /\ pr_index' = pr_index + 1
                  /\ UNCHANGED attempted
             ELSE /\ pc' = "detail"
                  /\ attempted' = [attempted EXCEPT ![pr_index] = @ + 1]
                  /\ UNCHANGED pr_index
          /\ UNCHANGED <<exit_code, reported>>
  /\ UNCHANGED <<argv, prs, pr_url, written, files, successful_reviews,
                 success, lastEvent, succeeded>>
  /\ UNCHANGED <<pr_data, diff_fetched>>
  /\ OrchUnchanged

\* review_single_pr returns without a review document
ReturnFalse ==
  /\ pc' = "returned"
  /\ success' = FALSE

\* get_pull_request_details and validate_pr_data
FetchDetail ==
  /\ pc = "detail"
  /\ lastEvent' = Event(pr_index, "detail", pr_number)
  /\ \E d \in DetailOutcomes :
       /\ pr_data' = d
       /\ IF d.tag = "valid"
          THEN /\ pc' = "diff"
               /\ pr_url' = d.url
               /\ UNCHANGED success
          ELSE /\ ReturnFalse
               /\ UNCHANGED pr_url
  /\ UNCHANGED diff_fetched
  /\ UNCHANGED <<argv, exit_code, prs, pr_index, pr_number, written, files,
                 attempted, successful_reviews, reported, succeeded>>
  /\ OrchUnchanged

\* `if not diff_content` lets the diff through
DiffAccepted(d) == d = "diff"

\* get_pull_request_diff
FetchDiff ==
  /\ pc = "diff"
  /\ lastEvent' = Event(pr_index, "diff", pr_number)
  /\ \E d \in DiffOutcomes :
       /\ diff_fetched' = d
       /\ IF DiffAccepted(d)
          THEN /\ pc' = "generate"
               /\ UNCHANGED success
          ELSE ReturnFalse
  /\ UNCHANGED pr_data
  /\ UNCHANGED <<argv, exit_code, prs, pr_index, pr_number, pr_url,
                 written, files, attempted, successful_reviews, reported,
                 succeeded>>
  /\ OrchUnchanged

\* generate_review_with_fallback
GenerateReviewStep ==
  /\ pc = "generate"
  /\ lastEvent' = Event(pr_index, "generate", pr_number)
  /\ \E r \in ReviewOutcomes :
       IF r = "review"
       THEN /\ pc' = "save"
            /\ UNCHANGED success
       ELSE ReturnFalse
  /\ UNCHANGED <<argv, exit_code, prs, pr_index, pr_number, pr_url,
                 written, files, attempted, successful_reviews, reported,
                 succeeded>>
  /\ UNCHANGED <<pr_data, diff_fetched>>
  /\ OrchUnchanged

\* save_review up to the first write: os.makedirs and open(filename, 'w');
\* an OSError is logged and review_single_pr goes on to `return True`
SaveOpen ==
  /\ pc = "save"
  /\ lastEvent' = Event(pr_index, "save", pr_number)
  /\ \E opened \in BOOLEAN :
       IF opened
       THEN /\ pc' = "write"
            /\ files' = [files EXCEPT ![pr_index] = "partial"]
            /\ written' = 0
            /\ UNCHANGED success
       ELSE /\ pc' = "returned"
            /\ success' = TRUE
            /\ UNCHANGED <<files, written>>
  /\ UNCHANGED <<argv, exit_code, prs, pr_index, pr_number, pr_url,
                 attempted, successful_reviews, reported, succeeded>>
  /\ UNCHANGED <<pr_data, diff_fetched>>
  /\ OrchUnchanged

\* one f.write of save_review, or the OSError it raises
SaveWrite ==
  /\ pc = "write"
  /\ \E ok \in BOOLEAN :
       IF ok
       THEN /\ written' = written + 1
            /\ IF written + 1 = DocumentParts(pr_url)
               THEN /\ pc' = "returned"
                    /\ success' = TRUE
                    /\ files' = [files EXCEPT ![pr_index] = "complete"]
               ELSE UNCHANGED <<pc, success, files>>
       ELSE /\ pc' = "returned"
            /\ success' = TRUE
            /\ UNCHANGED <<written, files>>
  /\ UNCHANGED <<argv, exit_code, prs, pr_index, pr_number, pr_url,
                 attempted, successful_reviews, reported, lastEvent,
                 succeeded>>
  /\ UNCHANGED <<pr_data, diff_fetched>>
  /\ OrchUnchanged

\* the caller of review_single_pr: main exits with 0 or 1, the loop counts
\* the success and moves on (its sleep after every third entry changes
\* nothing here); the locals of the finished call are gone
ReviewReturned ==
  /\ pc = "returned"
  /\ IF pr_index = 0
     THEN /\ Exit(IF success THEN 0 ELSE 1)
          /\ UNCHANGED <<pr_index, successful_reviews>>
     ELSE /\ pc' = "loop"
          /\ pr_index' = pr_index + 1
          /\ successful_reviews' =
               IF success THEN successful_reviews + 1 ELSE successful_reviews
          /\ UNCHANGED exit_code
  /\ pr_url' = FALSE
  /\ pr_data' = NoPrData
  /\ diff_fetched' = "none"
  /\ written' = 0
  /\ success' = FALSE
  /\ succeeded' = IF success THEN succeeded \cup {pr_index} ELSE succeeded
  /\ UNCHANGED <<argv, prs, pr_number, files, attempted, reported,
                 lastEvent>>
  /\ OrchUnchanged

OrchRunning ==
  {"main", "list", "loop", "detail", "diff", "generate", "save", "write",
   "returned"}

\* KeyboardInterrupt: no handler below main catches it
Interrupt ==
  /\ pc \in OrchRunning
  /\ Exit(130)
  /\ UNCHANGED <<argv, prs, pr_index, pr_number, pr_url, written, files,
                 attempted, successful_reviews, reported, success,
                 lastEvent, succeeded>>
  /\ UNCHANGED <<pr_data, diff_fetched>>
  /\ OrchUnchanged

\* ------------------------------------------------ actions: configuration
\* Config() on an environment
ConfigCall ==
  /\ pc = "cfg"
  /\ pc' = "cfg_done"
  /\ \E e \in Envs :
       /\ env' = e
       /\ config' = Construct(e)
  /\ UNCHANGED <<max_retries, attempt, rate_limit_remaining, sinceLast,
                 sinceGet, anyGet, lastGap, attempts, sleeps, lastSleep,
                 lastOutcome, uniform, ghResult, hfVars, probeVars, gwVars,
                 truncVars, orchVars, cleanVars>>

\* ------------------------------------ actions: _clean_review_response
CleanReviewResponseCall ==
  /\ pc = "clean"
  /\ pc' = "clean_done"
  /\ \E r \in ReviewArguments :
       /\ review' = r
       /\ cleaned' = CleanReviewResponse(r)
  /\ UNCHANGED <<max_retries, attempt, rate_limit_remaining, sinceLast,
                 sinceGet, anyGet, lastGap, attempts, sleeps, lastSleep,
                 lastOutcome, uniform, ghResult, hfVars, probeVars, gwVars,
                 truncVars, orchVars, cfgVars>>

Next ==
  \/ MakeRequest
  \/ AttemptResponse
  \/ AttemptTimeout
  \/ AttemptConnectionError
  \/ AttemptRequestException
  \/ Exhausted
  \/ GenerateReviewWithFallback
  \/ HfGiveUp
  \/ HfPostResponse
  \/ HfPostException
  \/ HandleRateLimitCall
  \/ GetOpenPullRequestsCall
  \/ GetPullRequestDetailsCall
  \/ GetPullRequestDiffCall
  \/ GenerateFallbackReviewCall
  \/ TruncateContentCall
  \/ Main
  \/ ListOpenPullRequests
  \/ LoopHead
  \/ FetchDetail
  \/ FetchDiff
  \/ GenerateReviewStep
  \/ SaveOpen
  \/ SaveWrite
  \/ ReviewReturned
  \/ Interrupt
  \/ ConfigCall
  \/ CleanReviewResponseCall

Spec == Init /\ [][Next]_vars

\* ------------------------------------------------------------------ claims
Returned == pc = "idle" /\ ghResult.tag # "pending"

\* the outcome of the last GET is a response with an integer remaining-quota
\* header
IsResponse(o) == o.kind = "response"
NumericRemaining(o) == o.remaining.has /\ IsIntText(o.remaining.val)

\* the bounds of min(60, 2^k + jitter), jitter in [0,1), in ticks
BackoffLow(k) == Min(60 * TicksPerSec, Pow(2, k) * TicksPerSec)
BackoffHigh(k) == Min(60 * TicksPerSec, Pow(2, k) * TicksPerSec + TicksPerSec)
IsBackoffOf(sl, k) ==
  /\ sl.kind = "backoff"
  /\ sl.attempt = k
  /\ BackoffLow(k) <= sl.ticks
  /\ sl.ticks <= BackoffHigh(k)

\* C1: one invocation of _make_request with retry ceiling n issues at most
\* n+1 GETs, whatever the outcomes are.
C1_AtMostCeilingPlusOneGets == attempts <= max_retries + 1

C1_Witness ==
  /\ Returned
  /\ max_retries >= 2
  /\ attempts = max_retries + 1
  /\ uniform = "mixed"

\* C2: neither retry loop can run forever.  While a call is running a step
\* is always possible; every step that stays in the loop consumes the
\* attempt counter (attempt, retry_count), which never exceeds the ceiling;
\* every other step returns.  So a call returns after at most n+2 steps.
C2_BothLoopsTerminate ==
  /\ [](pc = "gh_loop" =>
          /\ attempt <= max_retries + 1
          /\ ENABLED GhStep)
  /\ [](pc = "hf_call" =>
          /\ retry_count <= max_retries
          /\ ENABLED HfStep)
  /\ [][/\ pc = "gh_loop" =>
             \/ pc' = "idle"
             \/ pc' = "gh_loop" /\ attempt' = attempt + 1
        /\ pc = "hf_call" =>
             \/ pc' = "hf_idle"
             \/ pc' = "hf_call" /\ retry_count' = retry_count + 1]_vars

C2_Witness ==
  /\ pc = "idle"
  /\ ghResult = ReturnNone
  /\ max_retries = MaxRetries
  /\ attempt = max_retries + 1
  /\ lastSleep.kind = "reset"

\* C3: generate_review_with_fallback raises no error and returns a non-empty
\* text, the post-processed model output or the fallback report, for every
\* outcome of the inference endpoint.
C3_NeverFails ==
  /\ hfResult.tag # "raised"
  /\ (pc = "hf_idle" /\ hfResult.tag # "pending") =>
       \/ hfResult.tag = "fallback"
       \/ /\ hfResult.tag = "review"
          /\ hfResult.text # <<>>
          /\ hfOutcome.kind = "response"
          /\ hfOutcome.status = 200

\* C4: a 403 whose remaining-quota header is greater than 0 is an ordinary
\* HTTP error: no backoff sleep, no retry, failure after that attempt.
C4_Forbidden403IsPlainError ==
  (/\ IsResponse(lastOutcome)
   /\ lastOutcome.status = 403
   /\ NumericRemaining(lastOutcome)
   /\ IntOf(lastOutcome.remaining.val) > 0)
  => (pc = "idle" /\ ghResult = ReturnNone /\ lastSleep = NoSleep)

\* C5: _handle_rate_limit returns a wait exactly when the status is 403 or
\* 429, the response is a real rate limit (remaining quota 0 or status 429)
\* and the reset header is an integer t with t - now >= 1; the wait is then
\* t - now rounded down to whole seconds; in every other case it returns no
\* wait.
\* the remaining quota a response states: the header's integer, 0 when the
\* header is absent (the default the code reads), no quota (-1) otherwise
C5_RemainingQuota(r) ==
  IF r.remaining.has /\ IsIntText(r.remaining.val)
  THEN IntOf(r.remaining.val)
  ELSE IF r.remaining.has THEN -1 ELSE 0
C5_WaitCase(r) ==
  /\ r.status \in {403, 429}
  /\ (C5_RemainingQuota(r) = 0 \/ r.status = 429)
  /\ r.reset.has
  /\ IsIntText(r.reset.val)
  /\ IntOf(r.reset.val) * TicksPerSec - r.frac >= TicksPerSec
C5_WaitExactlyWhen ==
  pc = "probed" =>
    IF C5_WaitCase(probe)
    THEN /\ probeResult.tag = "wait"
         /\ 0 < probeResult.secs
         /\ probeResult.secs * TicksPerSec
              <= IntOf(probe.reset.val) * TicksPerSec - probe.frac
         /\ (probeResult.secs + 1) * TicksPerSec
              > IntOf(probe.reset.val) * TicksPerSec - probe.frac
    ELSE probeResult = NoWait

\* C6: after a 429 with X-RateLimit-Remaining: 0 and no reset header, the
\* call fails only when no attempt remains; on attempt k with attempts
\* remaining it sleeps min(60, 2^k + jitter) seconds and is about to issue
\* another GET.
C6_Is429NoReset(o) ==
  /\ IsResponse(o)
  /\ o.status = 429
  /\ o.remaining = Header(<<"0">>)
  /\ o.reset = NoHeader
C6_BackoffAfter429WithoutReset ==
  C6_Is429NoReset(lastOutcome) =>
    /\ ghResult.tag # "raised"
    /\ (pc = "idle" => attempt = max_retries /\ lastSleep = NoSleep)
    /\ (pc = "gh_loop" =>
          /\ IsBackoffOf(lastSleep, attempt - 1)
          /\ attempt <= max_retries)

C6_Witness ==
  /\ C6_Is429NoReset(lastOutcome)
  /\ pc = "gh_loop"
  /\ lastSleep.attempt = 6
  /\ lastSleep.ticks = 60 * TicksPerSec

\* C7: when every attempt times out (or every attempt is a connection
\* error), the call makes exactly n+1 attempts, sleeps the exponential
\* backoff after each of the first n and not after the last, and returns
\* absence instead of raising.
C7_AllTimeoutsOrAllConnectionErrors ==
  uniform \in {"timeout", "connection"} =>
    /\ (pc = "gh_loop" =>
          /\ IsBackoffOf(lastSleep, attempts - 1)
          /\ sleeps = attempts
          /\ attempts <= max_retries)
    /\ (pc = "idle" =>
          /\ attempts = max_retries + 1
          /\ sleeps = max_retries
          /\ lastSleep = NoSleep
          /\ ghResult = ReturnNone)

C7_Witness ==
  /\ Returned
  /\ uniform = "timeout"
  /\ max_retries = MaxRetries
  /\ attempts = max_retries + 1
  /\ sleeps = max_retries

\* C8: a response with an error status other than 403 and 429 makes
\* _make_request return failure at once: no backoff sleep, no retry.
C8_OtherErrorStatusFailsAtOnce ==
  (IsResponse(lastOutcome) /\ lastOutcome.status \notin {403, 429}
     /\ IsHttpError(lastOutcome.status))
  => (pc = "idle" /\ ghResult = ReturnNone /\ lastSleep = NoSleep)

\* C9: any two consecutive GETs of one client are at least 1 second apart.
C9_MinimumSpacing == lastGap = -1 \/ lastGap >= 1 * TicksPerSec

\* C10: when the first response has a 2xx status, the call returns that
\* response after exactly one GET and without backoff sleep, and the
\* remaining-quota counter equals the response's X-RateLimit-Remaining.
C10_SuccessReturnsResponse ==
  (/\ attempts = 1
   /\ IsResponse(lastOutcome)
   /\ 200 <= lastOutcome.status
   /\ lastOutcome.status < 300)
  => /\ pc = "idle"
     /\ ghResult = ReturnResponse(lastOutcome)
     /\ sleeps = 0
     /\ lastSleep = NoSleep
     /\ (lastOutcome.remaining.has =>
           /\ IsIntText(lastOutcome.remaining.val)
           /\ rate_limit_remaining = IntOf(lastOutcome.remaining.val))

\* C11: the remaining-quota counter of the client is never negative,
\* whatever X-RateLimit-Remaining headers the responses carry.
C11_RemainingNeverNegative == rate_limit_remaining >= 0

\* a JSON value that is a positive integer
PositiveNumber(v) == v.t = "num" /\ v.n > 0

\* C12: every summary in the list get_open_pull_requests returns and every
\* detail get_pull_request_details returns carries a number that is present
\* and a positive integer.
C12_NumbersPresentAndPositive ==
  /\ gwResult.tag = "list" =>
       \A i \in 1..Len(gwResult.items) :
          PositiveNumber(gwResult.items[i].number)
  /\ gwResult.tag = "detail" => PositiveNumber(gwResult.detail.number)

\* an entry of the payload that is an object with a number and a non-empty
\* URL
C13_Kept(e) ==
  /\ e.t = "pr"
  /\ e.number \notin {Missing, JNull}
  /\ e.html_url \notin {Missing, JNull, JStr(<<>>)}

\* C13: get_open_pull_requests always returns a list: the empty list after
\* a failed request, malformed JSON or a payload that is no list, and
\* otherwise, in payload order, exactly the entries that are objects with a
\* number and a non-empty URL.
C13_AlwaysAList ==
  pc = "gw_listed" =>
    /\ gwResult.tag = "list"
    /\ IF gwResponse.tag = "response" /\ gwResponse.body.t = "list"
       THEN LET kept == SelectSeq(gwResponse.body.items, C13_Kept) IN
            /\ Len(gwResult.items) = Len(kept)
            /\ \A i \in 1..Len(kept) :
                  /\ gwResult.items[i].number = kept[i].number
                  /\ gwResult.items[i].html_url = kept[i].html_url
       ELSE gwResult.items = <<>>

\* the text is not blank and one of its first 10 lines starts with '+', '-'
\* or '@@'
C14_Accepted(text) ==
  /\ \E i \in 1..Len(text) : text[i] \notin Whitespace
  /\ LET lines == SplitLines(text) IN
     \E i \in 1..Len(lines) :
        /\ i <= 10
        /\ \/ StartsWith(lines[i], <<"+">>)
           \/ StartsWith(lines[i], <<"-">>)
           \/ StartsWith(lines[i], <<"@", "@">>)

\* C14: for the response that _make_request returned, get_pull_request_diff
\* returns the response text unchanged if and only if the text is not blank
\* and one of its first 10 lines starts with '+', '-' or '@@'; otherwise it
\* returns absent.
C14_DiffAcceptedIff ==
  (pc = "gw_diffed" /\ gwResponse.tag = "response") =>
    IF C14_Accepted(gwResponse.body)
    THEN gwResult = GwDiff(gwResponse.body)
    ELSE gwResult = GwAbsent

\* a text whose only marker line is the 10th was returned
C14_Witness ==
  /\ pc = "gw_diffed"
  /\ gwResult.tag = "diff"
  /\ LET lines == SplitLines(gwResult.text) IN
     /\ Len(lines) = 10
     /\ \A i \in 1..9 : ~HasMarker(lines[i])

\* a payload with a generated text that is not blank: an object, or a list
\* that starts with one
C15_Object(payload) ==
  IF payload.t = "list" /\ Len(payload.items) > 0
  THEN payload.items[1]
  ELSE payload

C15_Valid(payload) ==
  LET obj == C15_Object(payload) IN
  /\ obj.t = "dict"
  /\ obj.has
  /\ obj.gt.t = "str"
  /\ \E i \in 1..Len(obj.gt.s) : obj.gt.s[i] \notin Whitespace

C15_Text(payload) == C15_Object(payload).gt.s

\* with the default ceiling the first three posts were answered 503 and the
\* fourth 200 with a valid payload
C15_Scenario ==
  /\ max_retries = 5
  /\ pc = "hf_idle"
  /\ posts = 4
  /\ loadingOnly
  /\ hfOutcome.kind = "response"
  /\ hfOutcome.status = 200
  /\ C15_Valid(hfOutcome.payload)

\* three 503 answers do not end the review under the default ceiling
C15_FourthCallMade ==
  ~(/\ max_retries = 5
    /\ pc = "hf_idle"
    /\ hfResult.tag # "pending"
    /\ posts = 3
    /\ hfOutcome.kind = "response"
    /\ hfOutcome.status = 503)

\* C15 as stated: with the default ceiling of 5, 503 on the first three calls
\* and 200 with a valid generated text on the fourth give exactly four
\* calls, and the result is the post-processed generated text, not the
\* fallback report.
C15_ThreeLoadingThenText ==
  /\ C15_FourthCallMade
  /\ C15_Scenario =>
       hfResult =
         Review(CleanReviewResponse(Strip(C15_Text(hfOutcome.payload))))

\* C15, amended: the same, provided the generated text contains one of
\* . ! ? ; a text without any of them is emptied by the post-processing and
\* the result is the fallback report.
C15_ThreeLoadingThenTextOrFallback ==
  /\ C15_FourthCallMade
  /\ C15_Scenario =>
       LET s == C15_Text(hfOutcome.payload) IN
       IF \E i \in 1..Len(s) : s[i] \in Punctuation
       THEN /\ hfResult = Review(CleanReviewResponse(Strip(s)))
            /\ hfResult.text # <<>>
       ELSE hfResult.tag = "fallback"

C15_Witness == C15_Scenario /\ hfResult.tag = "review"

\* C16: the wait before the retry that follows attempt k (0-based) is
\* 10 * (k + 1) seconds after a 503 and 5 * (k + 1) seconds after another
\* 5xx status, a timeout or a connection error; retries after 503 advance
\* the same counter as the others.
C16_WaitSchedule ==
  (pc = "hf_call" /\ hfWait.kind # "none") =>
    LET k == hfWait.retry IN
    /\ retry_count = k + 1
    /\ posts = retry_count
    /\ retry_count <= max_retries
    /\ IF hfOutcome.kind = "response"
       THEN /\ hfOutcome.status >= 500
            /\ hfOutcome.status < 600
            /\ hfWait.secs =
                 IF hfOutcome.status = 503 THEN 10 * (k + 1) ELSE 5 * (k + 1)
       ELSE /\ hfOutcome.kind \in {"timeout", "connection", "request"}
            /\ hfWait.secs = 5 * (k + 1)

\* the third attempt was answered 503 after an earlier failure of another
\* kind: the wait is 30 seconds
C16_Witness ==
  /\ pc = "hf_call"
  /\ hfOutcome.kind = "response"
  /\ hfOutcome.status = 503
  /\ ~loadingOnly
  /\ hfWait.retry = 2
  /\ hfWait.secs = 30

\* C17: a 4xx answer of the inference endpoint ends the API call at once:
\* no sleep, no further call for that review, and the review is the
\* fallback report.
C17_ClientErrorFailsAtOnce ==
  (/\ hfOutcome.kind = "response"
   /\ 400 <= hfOutcome.status
   /\ hfOutcome.status < 500)
  => /\ pc = "hf_idle"
     /\ hfWait = NoHfWait
     /\ posts = retry_count + 1
     /\ hfResult = GenerateFallbackReview(diff_content)

\* a 429 on the second call, with retries left, gave the fallback report
C17_Witness ==
  /\ pc = "hf_idle"
  /\ hfOutcome.kind = "response"
  /\ hfOutcome.status = 429
  /\ posts = 2
  /\ max_retries = 5
  /\ hfResult.tag = "fallback"

\* every attempt the ceiling allows was made and failed
C18_Exhausted ==
  /\ pc = "hf_idle"
  /\ hfResult.tag # "pending"
  /\ retry_count = max_retries
  /\ posts = max_retries

\* the lines of the full diff that start with has but not with hasNot
C18_Count(has, hasNot) ==
  LET lines == SplitLines(diff_content) IN
  Cardinality({i \in 1..Len(lines) :
                 /\ StartsWith(lines[i], has)
                 /\ ~StartsWith(lines[i], hasNot)})

\* C18: when every inference attempt fails until the ceiling is used up, the
\* output is the fallback template with Lines Added = lines starting with
\* '+' but not '+++', Lines Removed = lines starting with '-' but not '---'
\* and Files Modified = lines starting with '+++', counted over the full
\* diff, not the truncated one.
C18_FallbackCounts ==
  C18_Exhausted =>
    /\ hfResult.tag = "fallback"
    /\ ~hfResult.nodiff
    /\ hfResult.added = C18_Count(<<"+">>, <<"+", "+", "+">>)
    /\ hfResult.removed = C18_Count(<<"-">>, <<"-", "-", "-">>)
    /\ hfResult.files = C18_Count(<<"+", "+", "+">>, <<"+", "+", "+", "+">>)

\* the retries were used up on a diff whose added lines lie beyond the
\* character budget of the prompt
C18_Witness ==
  /\ C18_Exhausted
  /\ max_retries = 5
  /\ Len(truncated_diff) < Len(diff_content)
  /\ hfResult.added = 2
  /\ \A i \in 1..Len(truncated_diff) : truncated_diff[i] # "+"

\* C19: the complexity of the fallback report is LOW for 0 to 49 added
\* lines, MEDIUM for 50 to 100 and HIGH for 101 and more.
C19_ComplexityBands ==
  (hfResult.tag = "fallback" /\ ~hfResult.nodiff) =>
    hfResult.complexity =
      IF hfResult.added <= 49 THEN "LOW"
      ELSE IF hfResult.added <= 100 THEN "MEDIUM"
      ELSE "HIGH"

\* the 0-based offsets of the newlines among the last 20% of the first
\* max_chars characters of content
C20_TailNewlines ==
  {k \in 0..(max_chars - 1) :
     /\ k < Len(content)
     /\ content[k + 1] = "\n"
     /\ 5 * k >= 4 * max_chars}

\* C20: truncate_content returns a content of at most max_chars characters
\* unchanged; a longer one gives a prefix of at most max_chars characters:
\* the text before the last newline among the last 20% of the first
\* max_chars characters when there is one, and the first max_chars
\* characters otherwise.
C20_TruncateAtRecentNewline ==
  pc = "trunc_done" =>
    IF Len(content) <= max_chars THEN truncated = content
    ELSE /\ Len(truncated) <= max_chars
         /\ truncated = SubSeq(content, 1, Len(truncated))
         /\ IF C20_TailNewlines # {}
            THEN LET k == CHOOSE i \in C20_TailNewlines :
                            \A j \in C20_TailNewlines : j <= i
                 IN  truncated = SubSeq(content, 1, k)
            ELSE truncated = SubSeq(content, 1, max_chars)

\* C21: review_all_open_prs takes the pull requests in the order of the
\* listing, one at a time: every step belongs to the entry the loop is at
\* and carries its number, the steps of one pull request come in the order
\* detail, diff, generation, persistence, and an entry's first step comes
\* only after the steps of the entries before it.
C21_NextStep(e, f) ==
  \/ f.i = e.i /\ StepRank(f.step) = StepRank(e.step) + 1
  \/ f.i > e.i /\ f.step = "detail"

C21_ListingOrder ==
  [][(pr_index > 0 /\ lastEvent' # lastEvent) =>
       /\ lastEvent'.i = pr_index
       /\ lastEvent'.number = prs[pr_index]
       /\ C21_NextStep(lastEvent, lastEvent')]_vars

C21_Witness ==
  /\ pc = "exited"
  /\ Len(prs) = 2
  /\ prs[1] # prs[2]
  /\ files[1] = "complete"
  /\ lastEvent = Event(2, "save", prs[2])

\* C22: after a top-level interrupt, at whatever point it came, every
\* review document is either absent or complete.
C22_NoPartialDocument ==
  exit_code = 130 =>
    \A k \in DOMAIN files : files[k] \in {"absent", "complete"}

\* C23: without arguments all open pull requests are reviewed and the
\* status is 0; with a positive number, bare or after --pr, only that pull
\* request is reviewed and the status is 0 or 1; with any other argument
\* the status is 1 and no pull request is reviewed; an interrupt gives 130.
C23_PositiveText(arg) == AllDigits(arg) /\ IntOf(arg) > 0

C23_PositiveNumber(args) ==
  \/ Len(args) >= 1 /\ C23_PositiveText(args[1])
  \/ Len(args) >= 2 /\ args[1] = PrFlag /\ C23_PositiveText(args[2])

C23_NumberOf(args) ==
  IF args[1] = PrFlag THEN IntOf(args[2]) ELSE IntOf(args[1])

C23_ExitStatus ==
  (pc = "exited" /\ exit_code # 130) =>
    IF argv = <<>>
    THEN exit_code = 0 /\ 0 \notin DOMAIN files
    ELSE IF C23_PositiveNumber(argv)
    THEN /\ exit_code \in {0, 1}
         /\ DOMAIN files = {0}
         /\ attempted[0] = 1
         /\ pr_number = C23_NumberOf(argv)
    ELSE /\ exit_code = 1
         /\ files = <<>>
         /\ lastEvent = NoEvent

\* C24: a single-PR invocation ends with status 0 only if the review
\* document of that pull request was persisted.
C24_ZeroOnlyIfPersisted ==
  (pc = "exited" /\ DOMAIN files = {0} /\ exit_code = 0) =>
    files[0] = "complete"

\* C25: https://github.com/<owner>/<repo> and the same URL with .git at its
\* end both give the repository identifier <owner>/<repo>, whatever the
\* repository name ends with.
C25_UrlNormalized ==
  config # ConfigPending =>
    \A o \in Owners, r \in Repos :
      env \in {WithRepository(Url(o, r)), WithRepository(Url(o, r) \o DotGit)}
        => /\ config.tag = "ok"
           /\ config.v.github_repository = Identifier(o, r)

\* C26: the construction of the configuration fails whenever a required
\* variable is missing or blank, the repository identifier cannot be
\* parsed, the model identifier does not match the pattern, or one of
\* max diff length, request timeout and max retry count is not positive.
C26_Blank(v) == v.t = "unset" \/ Strip(v.s) = <<>>

C26_NonPositive(v, default) ==
  IsIntText(GetEnv(v, default)) /\ IntOf(GetEnv(v, default)) <= 0

C26_MustFail(e) ==
  \/ C26_Blank(e.HF_API_KEY)
  \/ C26_Blank(e.GITHUB_TOKEN)
  \/ C26_Blank(e.GITHUB_REPOSITORY)
  \/ ParseRepository(e.GITHUB_REPOSITORY.s).tag = "raised"
  \/ ~IsModelName(GetEnv(e.HUGGINGFACE_MODEL, DefaultModel))
  \/ C26_NonPositive(e.MAX_DIFF_LENGTH, DefaultMaxDiffLength)
  \/ C26_NonPositive(e.REQUEST_TIMEOUT, DefaultRequestTimeout)
  \/ C26_NonPositive(e.MAX_RETRIES, DefaultMaxRetries)

C26_InvalidConfigurationFails ==
  (config # ConfigPending /\ C26_MustFail(env)) => config.tag = "raised"

\* C30: an identifier that already has the form <owner>/<repo> is accepted
\* and kept as it is, for every owner, and normalizing a normalized
\* identifier again gives the same identifier.
C30_IdentifierKept ==
  config # ConfigPending =>
    /\ \A o \in Owners, r \in Repos :
         env = WithRepository(Identifier(o, r))
           => /\ config.tag = "ok"
              /\ config.v.github_repository = Identifier(o, r)
    /\ config.tag = "ok" =>
         ParseRepository(config.v.github_repository)
           = CfgValue(config.v.github_repository)

\* C27: when review_all_open_prs has gone through a listing, every listed
\* pull request was attempted exactly once, whatever failed for the others,
\* the reported number of successes is the number of pull requests whose
\* review succeeded, and the reported total is the length of the listing.
C27_EveryListedAttemptedOnce ==
  (pc = "exited" /\ exit_code # 130 /\ prs # <<>>) =>
    /\ reported # NoReport
    /\ \A k \in 1..Len(prs) : attempted[k] = 1
    /\ reported.successful = Cardinality(succeeded)
    /\ reported.total = Len(prs)

\* C28: the author of every summary and detail is a text, the login of
\* the user when there is one and "unknown" when the user is missing, null,
\* not an object, or an object without a login; the title is "Untitled"
\* and the body is empty when the field is missing or null.
C28_Login(pr) ==
  IF IsDict(pr.user) /\ pr.user.login.t = "str" THEN pr.user.login
  ELSE Unknown

C28_Defaults(pr, d) ==
  /\ pr.title \in {Missing, JNull} => d.title = Untitled
  /\ pr.body \in {Missing, JNull} => d.body = EmptyStr

C28_AuthorAlwaysText ==
  /\ gwResult.tag = "detail" =>
       /\ gwResult.detail.user = C28_Login(gwResponse.body)
       /\ C28_Defaults(gwResponse.body, gwResult.detail)
  /\ gwResult.tag = "list" =>
       /\ \A k \in 1..Len(gwResult.items) : gwResult.items[k].user.t = "str"
       /\ (Len(gwResult.items) = 1 /\ Len(gwResponse.body.items) = 1) =>
            /\ gwResult.items[1].user = C28_Login(gwResponse.body.items[1])
            /\ C28_Defaults(gwResponse.body.items[1], gwResult.items[1])

\* C29: for every non-empty text handed to _clean_review_response the
\* result is the prefix of the text that is left when the longest trailing
\* run without '.', '!' and '?' is removed; the result is empty or ends in
\* one of the three; a text that ends in one of them is returned unchanged.
C29_TrailingRun(s) ==
  CHOOSE n \in 0..Len(s) :
    /\ \A k \in (Len(s) - n + 1)..Len(s) : s[k] \notin Punctuation
    /\ n < Len(s) => s[Len(s) - n] \in Punctuation

C29_CleanedIsPunctuatedPrefix ==
  pc = "clean_done" =>
    /\ cleaned = SubSeq(review, 1, Len(review) - C29_TrailingRun(review))
    /\ cleaned = <<>> \/ cleaned[Len(cleaned)] \in Punctuation
    /\ review[Len(review)] \in Punctuation => cleaned = review

C29_Witness ==
  /\ pc = "clean_done"
  /\ cleaned # <<>>
  /\ Len(cleaned) < Len(review)

\* C31: a review document is written for a pull request only if its detail
\* fetch gave data whose number is a positive integer and its diff fetch
\* gave an accepted diff; otherwise neither the generation nor the
\* persistence step is taken for it and it is reported as failed.
C31_Fetched ==
  /\ pr_data.tag \notin {"none", "absent", "raised"}
  /\ pr_data.number.t = "num"
  /\ pr_data.number.n > 0
  /\ diff_fetched = "diff"

C31_PersistedOnlyIfFetched ==
  [][/\ (DOMAIN files' = DOMAIN files /\ files' # files) => C31_Fetched
     /\ (lastEvent' # lastEvent /\ lastEvent'.step \in {"generate", "save"})
          => C31_Fetched
     /\ (pc = "returned" /\ ~C31_Fetched) =>
          /\ ~success
          /\ succeeded' = succeeded
          /\ successful_reviews' = successful_reviews
          /\ (pr_index = 0 /\ exit_code' # 130) => exit_code' = 1]_vars

C31_Witness ==
  /\ pc = "returned"
  /\ pr_data.tag = "valid"
  /\ diff_fetched = "absent"
  /\ lastEvent.step = "diff"
  /\ files[pr_index] = "absent"
  /\ ~success

\* C32: with retry ceiling n, when every attempt of the inference call ends
\* in a timeout or a connection error, exactly n+1 POSTs are issued before
\* the call gives up; with n = 0 exactly one; and the call never returns
\* without having issued a POST.
C32_PostsCeilingPlusOne ==
  (pc = "hf_idle" /\ hfResult.tag # "pending") =>
    /\ posts >= 1
    /\ transportOnly => posts = max_retries + 1

\* C33: when an invocation of _make_request returns, the last GET it made
\* was not followed by a wait: every wait, from the reset header or from
\* exponential backoff, is followed by another GET of the same invocation.
C33_EveryWaitFollowedByGet ==
  (pc = "idle" /\ ghResult.tag # "pending") => lastSleep = NoSleep

\* C34: whatever the response, its rate-limit headers non-numeric, empty or
\* negative included, _make_request returns the response or None and raises
\* nothing, and so no call of get_open_pull_requests,
\* get_pull_request_details or get_pull_request_diff raises.
C34_NeverRaises ==
  /\ ghResult.tag # "raised"
  /\ gwResult.tag # "raised"

\* C35: no wait made inside _make_request after a rate-limit response, from
\* the reset header or from exponential backoff, is longer than 60 seconds.
C35_RateLimited(o) == IsResponse(o) /\ o.status \in {403, 429}
C35_NoWaitOverSixty ==
  C35_RateLimited(lastOutcome) => lastSleep.ticks <= BackoffCap * TicksPerSec

\* C35 amended: after a rate-limit response a backoff wait is
\* min(60, 2^k + jitter) seconds and so at most 60 seconds; a wait taken
\* from the reset header is the whole seconds left until the reset
\* timestamp, at least 1 second and not capped.
C35_UntilReset(o) == IntOf(o.reset.val) * TicksPerSec - o.frac
C35_WaitCappedForBackoffOnly ==
  (C35_RateLimited(lastOutcome) /\ lastSleep # NoSleep) =>
    /\ lastSleep.kind \in {"backoff", "reset"}
    /\ lastSleep.kind = "backoff" =>
         /\ IsBackoffOf(lastSleep, lastSleep.attempt)
         /\ lastSleep.ticks <= BackoffCap * TicksPerSec
    /\ lastSleep.kind = "reset" =>
         /\ lastOutcome.reset.has
         /\ IsIntText(lastOutcome.reset.val)
         /\ lastSleep.ticks >= TicksPerSec
         /\ lastSleep.ticks % TicksPerSec = 0
         /\ lastSleep.ticks <= C35_UntilReset(lastOutcome)
         /\ C35_UntilReset(lastOutcome) < lastSleep.ticks + TicksPerSec

C35_Witness ==
  /\ C35_RateLimited(lastOutcome)
  /\ lastSleep.kind = "reset"
  /\ lastSleep.ticks > BackoffCap * TicksPerSec

====
